---- MODULE Spec2Model ----
(***************************************************************************)
(* Model of the pngme chunk core: ChunkType (src/src/chunk_type.rs) and    *)
(* Chunk (src/src/chunk.rs).  Both are immutable values built by pure      *)
(* constructors, so the state is the caller's view of one call chain:      *)
(* the inputs handed to a constructor and the value it returned.           *)
(*                                                                         *)
(* u8 is 0..255.  u32 is a pair <<hi, lo>> of 16-bit halves (value         *)
(* hi * 65536 + lo) because a CRC-32 does not fit TLC's signed 32-bit      *)
(* integers.  Rust's Result is a record tagged "Ok" or "Err"; a             *)
(* panic (failed unwrap, index out of bounds) is the outcome "Panic".      *)
(***************************************************************************)
EXTENDS Integers, Sequences, FiniteSets, TLC

VARIABLES pc, bytes, s, chunk_type, data, chunk, value, parsed

vars == <<pc, bytes, s, chunk_type, data, chunk, value, parsed>>

\* Longest payload handed to Chunk::new, longest label handed to from_str.
MaxDataLen == 2
MaxStrLen == 5

(***************************************************************************)
(* Results                                                                 *)
(***************************************************************************)
None == [tag |-> "None"]
Ok(v) == [tag |-> "Ok", val |-> v]
Err(e) == [tag |-> "Err", err |-> e]
Panic == [tag |-> "Panic"]

ChunkTypeError == "ChunkTypeError"
ChunkError == "ChunkError"

\* Rust's v[a..b] (0-based, end exclusive) on a 1-based sequence.
Slice(v, a, b) == SubSeq(v, a + 1, b)

(***************************************************************************)
(* u8 predicates of the standard library                                   *)
(***************************************************************************)
is_ascii_uppercase(x) == x \in 65..90
is_ascii_lowercase(x) == x \in 97..122
is_ascii_alphabetic(x) == is_ascii_uppercase(x) \/ is_ascii_lowercase(x)

(***************************************************************************)
(* ChunkType                                                               *)
(***************************************************************************)
AllButLastAlphabetic(b) == \A i \in 1..3 : is_ascii_alphabetic(b[i])
AllAlphabetic(b) == \A i \in 1..4 : is_ascii_alphabetic(b[i])

IsPublicOfByte0(b) == is_ascii_uppercase(b[1])
IsCritical(b) == is_ascii_uppercase(b[1])
IsPublic(b) == is_ascii_uppercase(b[2])
IsReservedBitValid(b) == is_ascii_uppercase(b[3])
IsSafeToCopyUpper(b) == is_ascii_uppercase(b[4])
IsSafeToCopy(b) == is_ascii_lowercase(b[4])

ChunkTypeNew(b) ==
    LET is_valid == AllAlphabetic(b)
        is_critical == IsCritical(b)
        is_public == IsPublic(b)
        is_reserved_bit_valid == IsReservedBitValid(b)
        is_safe_to_copy == IsSafeToCopy(b)
    IN  IF is_valid
        THEN Ok([bytes |-> b,
                 is_valid |-> is_valid,
                 is_critical |-> is_critical,
                 is_public |-> is_public,
                 is_reserved_bit_valid |-> is_reserved_bit_valid,
                 is_safe_to_copy |-> is_safe_to_copy])
        ELSE Err(ChunkTypeError)

ChunkTypeTryFrom(v) == ChunkTypeNew(v)

FromStrMoreThanFour(str) ==
    IF Len(str) > 4
    THEN ChunkTypeNew(Slice(str, 0, 4))
    ELSE Err(ChunkTypeError)
FromStr(str) ==
    IF Len(str) >= 4
    THEN ChunkTypeNew(Slice(str, 0, 4))
    ELSE Err(ChunkTypeError)

(***************************************************************************)
(* u32 conversions                                                         *)
(***************************************************************************)
from_le_bytes(b) == <<b[4] * 256 + b[3], b[2] * 256 + b[1]>>
from_be_bytes(b) == <<b[1] * 256 + b[2], b[3] * 256 + b[4]>>
to_be_bytes(u) == <<u[1] \div 256, u[1] % 256, u[2] \div 256, u[2] % 256>>
\* usize as u32: truncation to the low 32 bits.
as_u32(n) == <<(n \div 65536) % 65536, n % 65536>>
\* u32 as usize (64-bit target): value preserving.  The buffers of this
\* model declare lengths below 2^31.
as_usize(u) == u[1] * 65536 + u[2]

(***************************************************************************)
(* CRC-32/ISO-HDLC: width 32, poly 0x04C11DB7, init 0xFFFFFFFF, refin,     *)
(* refout, xorout 0xFFFFFFFF.  Bit-reflected form: the register shifts    *)
(* right and the reflected polynomial is 0xEDB88320 = <<0xEDB8, 0x8320>>.  *)
(***************************************************************************)
RECURSIVE Xor(_, _)
Xor(a, b) ==
    IF a = 0 THEN b
    ELSE IF b = 0 THEN a
    ELSE ((a + b) % 2) + (2 * Xor(a \div 2, b \div 2))

XorU32(a, b) == <<Xor(a[1], b[1]), Xor(a[2], b[2])>>
Shr1(c) == <<c[1] \div 2, (c[1] % 2) * 32768 + c[2] \div 2>>

AllOnes == <<65535, 65535>>
PolyReflected == <<60856, 33568>>

RECURSIVE CrcShift(_, _)
CrcShift(c, n) ==
    IF n = 0 THEN c
    ELSE IF c[2] % 2 = 1
         THEN CrcShift(XorU32(Shr1(c), PolyReflected), n - 1)
         ELSE CrcShift(Shr1(c), n - 1)

CrcUpdate(c, byte) == CrcShift(XorU32(c, <<0, byte>>), 8)

IsU32(u) == u[1] \in 0..65535 /\ u[2] \in 0..65535

\* Feeds buf[k], buf[k + 1], ... into the register c.  The register is
\* evaluated (IsU32) before the next byte is read.
RECURSIVE CrcFold(_, _, _)
CrcFold(c, buf, k) ==
    IF k > Len(buf) THEN c
    ELSE LET next == CrcUpdate(c, buf[k])
         IN  IF IsU32(next) THEN CrcFold(next, buf, k + 1) ELSE next

Checksum(buf) == XorU32(CrcFold(AllOnes, buf, 1), AllOnes)

(***************************************************************************)
(* Chunk                                                                   *)
(***************************************************************************)
\* The bytes Chunk::new checksums: the tag's 4 bytes, then the payload.
NewCrcInputDataOnly(ct, d) == d
NewCrcInput(ct, d) == ct.bytes \o d

ChunkNew(ct, d) ==
    LET length == as_u32(Len(d))
        crc == Checksum(NewCrcInput(ct, d))
    IN  [length |-> length, chunk_type |-> ct, data |-> d, crc |-> crc]

\* value[8 + length..].try_into(): a [u8; 4] only from exactly 4 bytes.
TailAtLeastFour(v, end) == Len(v) - end >= 4
TailIsFour(v, end) == Len(v) - end = 4

\* The bytes try_from checksums: value[4..8 + length].
ParseCrcInputDataOnly(v, end) == Slice(v, 8, end)
ParseCrcInput(v, end) == Slice(v, 4, end)

ChunkTryFrom(v) ==
    IF Len(v) < 4 THEN Err(ChunkError)
    ELSE
    LET length == from_be_bytes(Slice(v, 0, 4)) IN
    IF Len(v) < 8 THEN Panic                         \* value[4] .. value[7]
    ELSE
    LET ct == ChunkTypeTryFrom(Slice(v, 4, 8)) IN
    IF ct.tag = "Err" THEN Panic                     \* unwrap of Err
    ELSE
    LET end == 8 + as_usize(length) IN
    IF end > Len(v) THEN Panic                       \* value[8..end]
    ELSE IF ~TailIsFour(v, end) THEN Panic           \* try_into().unwrap()
    ELSE
    LET d == Slice(v, 8, end)
        crc == from_be_bytes(Slice(v, end, end + 4))
        crc_expected == Checksum(ParseCrcInput(v, end))
    IN  IF crc = crc_expected
        THEN Ok([length |-> length, chunk_type |-> ct.val, data |-> d, crc |-> crc])
        ELSE Err(ChunkError)

\* The caller's assembly of the wire layout from the four accessors.
Wire(c) ==
    to_be_bytes(c.length) \o c.chunk_type.bytes \o c.data \o to_be_bytes(c.crc)

(***************************************************************************)
(* Inputs                                                                  *)
(***************************************************************************)
RuSt == <<82, 117, 83, 116>>
TestLabels ==
    { RuSt,
      <<114, 117, 83, 116>>,    \* ruSt
      <<82, 85, 83, 116>>,      \* RUSt
      <<82, 117, 115, 116>>,    \* Rust
      <<82, 117, 83, 84>>,      \* RuST
      <<82, 117, 49, 116>> }    \* Ru1t
\* "This is where your secret message will be!"
TestMessage ==
    <<84, 104, 105, 115, 32, 105, 115, 32, 119, 104, 101, 114, 101, 32, 121,
      111, 117, 114, 32, 115, 101, 99, 114, 101, 116, 32, 109, 101, 115, 115,
      97, 103, 101, 32, 119, 105, 108, 108, 32, 98, 101, 33>>

\* '@' 'A' 'Z' '[' '`' 'a' 'z' '{': the ends of the letters' ranges and
\* their neighbours.
TagBytes == {64, 65, 90, 91, 96, 97, 122, 123}
StrBytes == {49, 65, 122}
DataBytes == {0, 84, 255}
TamperBytes == {1, 66}

SeqsUpTo(S, n) == UNION { [1..k -> S] : k \in 0..n }

TagInputs == [1..4 -> TagBytes] \cup TestLabels
StrInputs == SeqsUpTo(StrBytes, MaxStrLen) \cup TestLabels
DataInputs == SeqsUpTo(DataBytes, MaxDataLen)
NewInputs ==
    ({ l \in TestLabels : AllAlphabetic(l) } \X DataInputs) \cup {<<RuSt, TestMessage>>}

(***************************************************************************)
(* The call chains                                                         *)
(***************************************************************************)
Init ==
    /\ pc = "start"
    /\ bytes = <<>>
    /\ s = <<>>
    /\ chunk_type = None
    /\ data = <<>>
    /\ chunk = None
    /\ value = <<>>
    /\ parsed = None

\* ChunkType::try_from([u8; 4])
TypeTryFrom ==
    /\ pc = "start"
    /\ \E b \in TagInputs :
        /\ bytes' = b
        /\ chunk_type' = ChunkTypeTryFrom(b)
    /\ pc' = "try_from"
    /\ UNCHANGED <<s, data, chunk, value, parsed>>

\* ChunkType::from_str(&str)
TypeFromStr ==
    /\ pc = "start"
    /\ \E str \in StrInputs :
        /\ s' = str
        /\ chunk_type' = FromStr(str)
    /\ pc' = "from_str"
    /\ UNCHANGED <<bytes, data, chunk, value, parsed>>

\* ChunkType::from_str(label).unwrap(), then Chunk::new(chunk_type, data)
New ==
    /\ pc = "start"
    /\ \E in \in NewInputs :
        LET ct == FromStr(in[1]) IN
        /\ ct.tag = "Ok"
        /\ s' = in[1]
        /\ chunk_type' = ct
        /\ data' = in[2]
        /\ chunk' = Ok(ChunkNew(ct.val, in[2]))
    /\ pc' = "new"
    /\ UNCHANGED <<bytes, value, parsed>>

\* length, tag, payload and crc chained into one buffer
Serialize ==
    /\ pc = "new"
    /\ value' = Wire(chunk.val)
    /\ pc' = "wire"
    /\ UNCHANGED <<bytes, s, chunk_type, data, chunk, parsed>>

\* The buffer reaches the parser cut short, ...
Truncate ==
    /\ pc = "wire"
    /\ \E k \in 0..(Len(value) - 1) : value' = SubSeq(value, 1, k)
    /\ pc' = "tampered"
    /\ UNCHANGED <<bytes, s, chunk_type, data, chunk, parsed>>

\* ... with bytes after the crc field, ...
Extend ==
    /\ pc = "wire"
    /\ \E b \in TamperBytes : value' = Append(value, b)
    /\ pc' = "tampered"
    /\ UNCHANGED <<bytes, s, chunk_type, data, chunk, parsed>>

\* ... or with one byte changed.
Overwrite ==
    /\ pc = "wire"
    /\ \E i \in 1..Len(value), b \in TamperBytes : value' = [value EXCEPT ![i] = b]
    /\ pc' = "tampered"
    /\ UNCHANGED <<bytes, s, chunk_type, data, chunk, parsed>>

\* Chunk::try_from(&[u8])
Parse ==
    /\ pc \in {"wire", "tampered"}
    /\ parsed' = ChunkTryFrom(value)
    /\ pc' = "parsed"
    /\ UNCHANGED <<bytes, s, chunk_type, data, chunk, value>>

Next ==
    \/ TypeTryFrom
    \/ TypeFromStr
    \/ New
    \/ Serialize
    \/ Truncate
    \/ Extend
    \/ Overwrite
    \/ Parse

Spec == Init /\ [][Next]_vars

(***************************************************************************)
(* Vocabulary of the properties                                            *)
(***************************************************************************)
AsciiUpper == 65..90
AsciiLower == 97..122
AsciiLetter == AsciiUpper \cup AsciiLower

\* The number a u32 stands for (below 2^31 here).
NumberOf(u) == u[1] * 65536 + u[2]
\* N, the big-endian number in the first 4 bytes of a buffer.
DeclaredLen(v) == ((v[1] * 256 + v[2]) * 256 + v[3]) * 256 + v[4]
\* length field N, four letters, N payload bytes, 4 crc bytes.
WellFormed(v) ==
    /\ Len(v) >= 12
    /\ Len(v) = 12 + DeclaredLen(v)
    /\ \A i \in 5..8 : v[i] \in AsciiLetter
CrcField(v) == SubSeq(v, Len(v) - 3, Len(v))
CrcOfContent(v) == to_be_bytes(Checksum(SubSeq(v, 5, Len(v) - 4)))

ChunkInvariant(c) ==
    /\ NumberOf(c.length) = Len(c.data)
    /\ c.crc = Checksum(c.chunk_type.bytes \o c.data)

(***************************************************************************)
(* C1  Integrity gate: a well-formed buffer parses to Ok when its trailing *)
(* crc field equals the CRC-32 of tag and payload, and to Err(ChunkError)  *)
(* when it differs.                                                        *)
(***************************************************************************)
C1_IntegrityGate ==
    (pc = "parsed" /\ WellFormed(value)) =>
        IF CrcField(value) = CrcOfContent(value)
        THEN parsed.tag = "Ok"
        ELSE parsed = Err(ChunkError)

C1_Witness ==
    /\ pc = "parsed"
    /\ WellFormed(value)
    /\ CrcField(value) # CrcOfContent(value)
    /\ parsed = Err(ChunkError)

C3_RoundTrip ==
    (pc = "parsed" /\ chunk.tag = "Ok" /\ value = Wire(chunk.val)) =>
        /\ parsed.tag = "Ok"
        /\ parsed.val.length = chunk.val.length
        /\ parsed.val.chunk_type.bytes = chunk.val.chunk_type.bytes
        /\ parsed.val.data = chunk.val.data
        /\ parsed.val.crc = chunk.val.crc

C3_Witness ==
    /\ pc = "parsed"
    /\ chunk.tag = "Ok"
    /\ value = Wire(chunk.val)
    /\ data # <<>>
    /\ parsed.tag = "Ok"
    /\ parsed.val.data = data

(***************************************************************************)
(* C4  Truncated input is an error value: a buffer of fewer than 4 bytes,  *)
(* or shorter than 12 + N for its declared length N, parses to             *)
(* Err(ChunkError) and does not panic.                                     *)
(***************************************************************************)
C4_TruncatedIsErr ==
    (pc = "parsed" /\ (Len(value) < 4 \/ Len(value) < 12 + DeclaredLen(value))) =>
        parsed = Err(ChunkError)

(***************************************************************************)
(* C5  A malformed tag is an error value: a buffer with a non-letter among *)
(* the bytes at offsets 4..7 parses to Err(ChunkError).                    *)
(***************************************************************************)
C5_BadTagIsErr ==
    (pc = "parsed" /\ Len(value) >= 8 /\ \E i \in 5..8 : value[i] \notin AsciiLetter) =>
        parsed = Err(ChunkError)

(***************************************************************************)
(* C6  Validity gate: ChunkType::try_from is Ok exactly when all four      *)
(* bytes are ASCII letters and Err(ChunkTypeError) otherwise; on Ok the    *)
(* bytes are stored verbatim and is_valid is true, so no ChunkType with    *)
(* is_valid = false exists.                                                *)
(***************************************************************************)
C6_ValidityGate ==
    /\ pc = "try_from" =>
        /\ chunk_type.tag = "Ok" <=> \A i \in 1..4 : bytes[i] \in AsciiLetter
        /\ chunk_type.tag # "Ok" => chunk_type = Err(ChunkTypeError)
        /\ chunk_type.tag = "Ok" => chunk_type.val.bytes = bytes
    /\ chunk_type.tag = "Ok" => chunk_type.val.is_valid
    /\ chunk.tag = "Ok" => chunk.val.chunk_type.is_valid
    /\ parsed.tag = "Ok" => parsed.val.chunk_type.is_valid

C6_Witness ==
    /\ pc = "try_from"
    /\ bytes = <<82, 117, 49, 116>>
    /\ chunk_type = Err(ChunkTypeError)

(***************************************************************************)
(* C7  As claimed: each of the four flags is true exactly when the byte at *)
(* its position is uppercase (critical 0, public 1, reserved-bit 2,        *)
(* safe-to-copy 3).                                                        *)
(***************************************************************************)
C7_AllFlagsUppercase ==
    chunk_type.tag = "Ok" =>
        LET t == chunk_type.val IN
        /\ t.is_critical <=> t.bytes[1] \in AsciiUpper
        /\ t.is_public <=> t.bytes[2] \in AsciiUpper
        /\ t.is_reserved_bit_valid <=> t.bytes[3] \in AsciiUpper
        /\ t.is_safe_to_copy <=> t.bytes[4] \in AsciiUpper

(***************************************************************************)
(* C7  As amended: is_critical, is_public and is_reserved_bit_valid are    *)
(* true exactly when bytes 0, 1 and 2 are uppercase and false when they    *)
(* are lowercase; is_safe_to_copy is true exactly when byte 3 is lowercase *)
(* and false when it is uppercase.                                         *)
(***************************************************************************)
C7_FlagsByCase ==
    chunk_type.tag = "Ok" =>
        LET t == chunk_type.val IN
        /\ t.is_critical <=> t.bytes[1] \in AsciiUpper
        /\ ~t.is_critical <=> t.bytes[1] \in AsciiLower
        /\ t.is_public <=> t.bytes[2] \in AsciiUpper
        /\ ~t.is_public <=> t.bytes[2] \in AsciiLower
        /\ t.is_reserved_bit_valid <=> t.bytes[3] \in AsciiUpper
        /\ ~t.is_reserved_bit_valid <=> t.bytes[3] \in AsciiLower
        /\ t.is_safe_to_copy <=> t.bytes[4] \in AsciiLower
        /\ ~t.is_safe_to_copy <=> t.bytes[4] \in AsciiUpper

C7_Witness ==
    /\ pc = "try_from"
    /\ chunk_type.tag = "Ok"
    /\ bytes = <<65, 122, 65, 65>>
    /\ chunk_type.val.is_critical
    /\ ~chunk_type.val.is_public
    /\ chunk_type.val.is_reserved_bit_valid
    /\ ~chunk_type.val.is_safe_to_copy

(***************************************************************************)
(* C8  Safe-to-copy as the tests state it: is_safe_to_copy is true exactly *)
(* when byte 3 is a lowercase letter; "RuSt" is safe to copy and critical, *)
(* "RuST" is not safe to copy, "ruSt" is not critical.                     *)
(***************************************************************************)
C8_SafeToCopyLowercase ==
    chunk_type.tag = "Ok" =>
        LET t == chunk_type.val IN
        /\ t.is_safe_to_copy <=> t.bytes[4] \in AsciiLower
        /\ t.bytes = RuSt => (t.is_safe_to_copy /\ t.is_critical)
        /\ t.bytes = <<82, 117, 83, 84>> => ~t.is_safe_to_copy
        /\ t.bytes = <<114, 117, 83, 116>> => ~t.is_critical

C8_Witness ==
    /\ pc = "from_str"
    /\ s = <<82, 117, 83, 84>>
    /\ chunk_type.tag = "Ok"
    /\ ~chunk_type.val.is_safe_to_copy

(***************************************************************************)
(* C9  from_str(s) is Err(ChunkTypeError) when s has fewer than 4 bytes    *)
(* and otherwise the result of try_from on the first 4 bytes of s; bytes   *)
(* beyond the fourth do not matter.                                        *)
(***************************************************************************)
C9_FromStr ==
    pc = "from_str" =>
        IF Len(s) < 4
        THEN chunk_type = Err(ChunkTypeError)
        ELSE chunk_type = ChunkTypeTryFrom(<<s[1], s[2], s[3], s[4]>>)

C9_Witness ==
    /\ pc = "from_str"
    /\ Len(s) > 4
    /\ s[5] \notin AsciiLetter
    /\ chunk_type.tag = "Ok"
    /\ chunk_type.val.bytes = <<s[1], s[2], s[3], s[4]>>

(***************************************************************************)
(* C10  Exact record size: try_from is Ok only for buffers of exactly      *)
(* 12 + N bytes, N the declared length; a valid record followed by more    *)
(* bytes never yields Ok.                                                  *)
(***************************************************************************)
C10_ExactSize ==
    (pc = "parsed" /\ parsed.tag = "Ok") => Len(value) = 12 + DeclaredLen(value)

C10_Witness ==
    /\ pc = "parsed"
    /\ chunk.tag = "Ok"
    /\ Len(value) > Len(Wire(chunk.val))
    /\ SubSeq(value, 1, Len(Wire(chunk.val))) = Wire(chunk.val)
    /\ parsed.tag # "Ok"

====
